---- MODULE Spec2Model ----
(***************************************************************************)
(* PipeCopy.c: a parent process creates a pipe and forks two children.     *)
(* Child 1 copies the source file into the pipe, child 2 copies the pipe   *)
(* into the destination file, the parent waits for both and aggregates     *)
(* their exit statuses.                                                    *)
(*                                                                         *)
(* Every process runs the same main(); which part of it a process runs is  *)
(* decided by the values of its own copies of child_1 and child_2.         *)
(* Process 0 is the process that was started, 1 and 2 are the processes    *)
(* created by the first and the second fork().                             *)
(***************************************************************************)
EXTENDS Integers, Sequences, FiniteSets, TLC

(* ------------------------------ bounds -------------------------------- *)

\* the largest sources hold MaxBlocks full blocks, and one byte more
MaxBlocks == 1
\* capacity of the smallest pipe: less than one block
SmallPipe == 512
\* length of the content the destination may hold before a run
OldLen == 3
\* read()/write() calls of one run that fail or fall short
MaxFaults == 1
\* times the program is run on the same pair of paths
MaxRuns == 2

(* ------------------------- program constants -------------------------- *)

BLOCK_SIZE == 1024

\* the signal write() raises on a pipe that has no reader
SIGPIPE == 13

Procs == 0 .. 2
Children == 1 .. 2

\* process ids fork() hands to the parent
Pid(p) == 100 + p

Min(a, b) == IF a < b THEN a ELSE b

(* ------------------------------ the files ----------------------------- *)

\* the source file holds Byte(k) at position k
Byte(k) == (k * 7 + 1) % 256
Source(n) == [k \in 1 .. n |-> Byte(k)]
Junk(n) == [k \in 1 .. n |-> 255 - (k % 5)]

Sizes ==
  {0, 1, BLOCK_SIZE - 1, BLOCK_SIZE, BLOCK_SIZE + 1,
   MaxBlocks * BLOCK_SIZE, MaxBlocks * BLOCK_SIZE + 1}

\* a pipe smaller than a block, one between one and two blocks, and one
\* that no source of the model fills
PipeCaps == {SmallPipe, SmallPipe + BLOCK_SIZE, (MaxBlocks + 3) * BLOCK_SIZE}

DestInits == {<< >>, Junk(OldLen)}

VARIABLES
  pc,          \* where each process is in main()
  child_1,     \* each process's copy of child_1
  child_2,     \* each process's copy of child_2
  fds,         \* the descriptors each process holds open
  pipe,        \* bytes buffered in the pipe
  pipeCap,     \* capacity of the pipe
  srcLen,      \* size of the source file
  destFile,    \* content of the destination file
  offset,      \* file offset of the file a process has open
  pid,         \* copy(): the pid argument, 0 outside copy()
  buffer,      \* copy(): the block read
  read_count,  \* copy(): result of the last read()
  written,     \* bytes of the block a blocked pipe write has transferred
  out,         \* lines each process printed
  status,      \* wait status of each terminated process, -1 before
  openAtExit,  \* descriptors a process still held open when it returned
  i,           \* parent: loop counter of the wait loop
  error,       \* parent: error flag
  reaped,      \* children the parent has waited for
  sigpipe,     \* disposition of SIGPIPE inherited from the invoker; it is
               \* settled (SIG_DFL or SIG_IGN) when the signal is first raised
  faults,      \* read()/write() calls of this run that failed or fell short
  writeFailed, \* processes one of whose write() calls returned an error
  sent,        \* every byte that went into the pipe, in order
  lost,        \* bytes write() calls were asked to transfer and did not
  run,         \* number of the current run
  destBefore   \* content of the destination when the run started

vars == << pc, child_1, child_2, fds, pipe, pipeCap, srcLen, destFile, offset,
           pid, buffer, read_count, written, out, status, openAtExit, i,
           error, reaped, sigpipe, faults, writeFailed, sent, lost, run,
           destBefore >>


(* ------------------------------ helpers ------------------------------- *)

\* a printed line: its kind and up to two numbers
Line(t, a, b) == [t |-> t, a |-> a, b |-> b]

Printed(p, t) == \E k \in 1 .. Len(out[p]) : out[p][k].t = t

\* the processes that hold descriptor d open
Holders(d) == {q \in Procs : d \in fds[q]}

\* the wait status of a process that returned code from main()
ExitedStatus(code) == code * 256

\* the wait status of a process killed by signal sig
SignaledStatus(sig) == sig

WEXITSTATUS(s) == (s \div 256) % 256

\* content of a file after write() of data at offset off
WriteAt(f, off, data) ==
  SubSeq(f, 1, off) \o data \o SubSeq(f, off + Len(data) + 1, Len(f))

\* OpenTrunc without O_TRUNC
OpenNoTrunc(f) == f

\* open(argv[2], O_WRONLY | O_CREAT | O_TRUNC, ...): the content left
OpenTrunc(f) == << >>

\* LoopTest written as a test for a full block
LoopTestFullBlock(n) == n = BLOCK_SIZE

\* LoopTest written as a test for end of file only
LoopTestNonZero(n) == n # 0

\* line 166: the test of the while loop on the result of read()
LoopTest(n) == n > 0

\* ProgressLine printing the block size
ProgressLineBlockSize(tag, n) == Line("copied", tag, BLOCK_SIZE)

\* line 167: the progress notification
ProgressLine(tag, n) == Line("copied", tag, n)

\* ErrorFlag keeping only the last child's outcome
ErrorFlagLast(e, st) == st # 0

\* lines 67-78: the error flag after a child with exit status st
ErrorFlag(e, st) == IF st = 0 THEN e ELSE TRUE

\* Branch with the test of line 120 written child_2 <= 0
BranchChild2NotPositive(c1, c2) ==
  IF c2 > 0 THEN "parent_close0"
  ELSE IF c1 = 0 THEN "child1_close0"
  ELSE IF c2 <= 0 THEN "child2_close1"
  ELSE IF c1 < 0 \/ c2 < 0 THEN "fork_error"
  ELSE "return_0"

\* the if-chain of main() after the forks: the block a process enters
Branch(c1, c2) ==
  IF c2 > 0 THEN "parent_close0"
  ELSE IF c1 = 0 THEN "child1_close0"
  ELSE IF c2 = 0 THEN "child2_close1"
  ELSE IF c1 < 0 \/ c2 < 0 THEN "fork_error"
  ELSE "return_0"

\* return code from main() in process p, holding `open` at that moment
Return(p, code, open) ==
  /\ pc' = [pc EXCEPT ![p] = "done"]
  /\ status' = [status EXCEPT ![p] = ExitedStatus(code)]
  /\ fds' = [fds EXCEPT ![p] = {}]
  /\ openAtExit' = [openAtExit EXCEPT ![p] = open]

Say(p, line) == out' = [out EXCEPT ![p] = Append(@, line)]

(* ------------------------------- Init --------------------------------- *)

Fresh ==
  /\ pc = [p \in Procs |-> IF p = 0 THEN "pipe" ELSE "none"]
  /\ child_1 = [p \in Procs |-> 0]
  /\ child_2 = [p \in Procs |-> 0]
  /\ fds = [p \in Procs |-> {}]
  /\ pipe = << >>
  /\ offset = [p \in Procs |-> 0]
  /\ pid = [p \in Procs |-> 0]
  /\ buffer = [p \in Procs |-> << >>]
  /\ read_count = [p \in Procs |-> 0]
  /\ written = [p \in Procs |-> 0]
  /\ out = [p \in Procs |-> << >>]
  /\ status = [p \in Procs |-> -1]
  /\ openAtExit = [p \in Procs |-> {}]
  /\ i = 0
  /\ error = FALSE
  /\ reaped = {}
  /\ sigpipe = "unknown"
  /\ faults = 0
  /\ writeFailed = {}
  /\ sent = << >>
  /\ lost = 0

Init ==
  /\ Fresh
  /\ pipeCap \in PipeCaps
  /\ srcLen \in Sizes
  /\ destFile \in DestInits
  /\ run = 1
  /\ destBefore = destFile

(* ------------------------- main(): the parent ------------------------- *)

\* lines 26-30
PipeCreate ==
  /\ pc[0] = "pipe"
  /\ \/ /\ fds' = [fds EXCEPT ![0] = {"fd0", "fd1"}]
        /\ pc' = [pc EXCEPT ![0] = "fork_1"]
        /\ UNCHANGED << out, status, openAtExit >>
     \/ /\ Say(0, Line("pipe_failed", 0, 0))
        /\ Return(0, 1, {})
  /\ UNCHANGED << child_1, child_2, pipe, pipeCap, srcLen, destFile, offset,
                  pid, buffer, read_count, written, i, error, reaped, sigpipe,
                  faults, writeFailed, sent, lost, run, destBefore >>

\* lines 33-37, fork() succeeds: process 1 starts with child_1 = 0
Fork1 ==
  /\ pc[0] = "fork_1"
  /\ child_1' = [child_1 EXCEPT ![0] = Pid(1), ![1] = 0]
  /\ child_2' = [child_2 EXCEPT ![0] = 0, ![1] = 0]
  /\ fds' = [fds EXCEPT ![1] = fds[0]]
  /\ pc' = [pc EXCEPT ![0] = "fork_2", ![1] = Branch(0, 0)]
  /\ UNCHANGED << pipe, pipeCap, srcLen, destFile, offset, pid, buffer,
                  read_count, written, out, status, openAtExit, i, error,
                  reaped, sigpipe, faults, writeFailed, sent, lost, run,
                  destBefore >>

\* lines 33-37, fork() fails: child_1 = -1, child_2 stays 0
Fork1Fails ==
  /\ pc[0] = "fork_1"
  /\ child_1' = [child_1 EXCEPT ![0] = -1]
  /\ child_2' = [child_2 EXCEPT ![0] = 0]
  /\ pc' = [pc EXCEPT ![0] = Branch(-1, 0)]
  /\ UNCHANGED << fds, pipe, pipeCap, srcLen, destFile, offset, pid, buffer,
                  read_count, written, out, status, openAtExit, i, error,
                  reaped, sigpipe, faults, writeFailed, sent, lost, run,
                  destBefore >>

\* line 39, fork() succeeds: process 2 starts with child_2 = 0
Fork2 ==
  /\ pc[0] = "fork_2"
  /\ child_1' = [child_1 EXCEPT ![2] = child_1[0]]
  /\ child_2' = [child_2 EXCEPT ![0] = Pid(2), ![2] = 0]
  /\ fds' = [fds EXCEPT ![2] = fds[0]]
  /\ pc' = [pc EXCEPT ![0] = Branch(child_1[0], Pid(2)),
                      ![2] = Branch(child_1[0], 0)]
  /\ UNCHANGED << pipe, pipeCap, srcLen, destFile, offset, pid, buffer,
                  read_count, written, out, status, openAtExit, i, error,
                  reaped, sigpipe, faults, writeFailed, sent, lost, run,
                  destBefore >>

\* line 39, fork() fails
Fork2Fails ==
  /\ pc[0] = "fork_2"
  /\ child_2' = [child_2 EXCEPT ![0] = -1]
  /\ pc' = [pc EXCEPT ![0] = Branch(child_1[0], -1)]
  /\ UNCHANGED << child_1, fds, pipe, pipeCap, srcLen, destFile, offset, pid,
                  buffer, read_count, written, out, status, openAtExit, i,
                  error, reaped, sigpipe, faults, writeFailed, sent, lost,
                  run, destBefore >>

\* line 45
ParentClose0(p) ==
  /\ pc[p] = "parent_close0"
  /\ fds' = [fds EXCEPT ![p] = @ \ {"fd0"}]
  /\ pc' = [pc EXCEPT ![p] = "parent_close1"]
  /\ UNCHANGED << child_1, child_2, pipe, pipeCap, srcLen, destFile, offset,
                  pid, buffer, read_count, written, out, status, openAtExit,
                  i, error, reaped, sigpipe, faults, writeFailed, sent, lost,
                  run, destBefore >>

\* ParentClose1 without the close() of line 46
ParentKeepsWriteEnd(p) ==
  /\ pc[p] = "parent_close1"
  /\ pc' = [pc EXCEPT ![p] = "wait"]
  /\ i' = 0
  /\ error' = FALSE
  /\ UNCHANGED << child_1, child_2, fds, pipe, pipeCap, srcLen, destFile,
                  offset, pid, buffer, read_count, written, out, status,
                  openAtExit, reaped, sigpipe, faults, writeFailed, sent,
                  lost, run, destBefore >>

\* lines 46-50
ParentClose1(p) ==
  /\ pc[p] = "parent_close1"
  /\ fds' = [fds EXCEPT ![p] = @ \ {"fd1"}]
  /\ pc' = [pc EXCEPT ![p] = "wait"]
  /\ i' = 0
  /\ error' = FALSE
  /\ UNCHANGED << child_1, child_2, pipe, pipeCap, srcLen, destFile, offset,
                  pid, buffer, read_count, written, out, status, openAtExit,
                  reaped, sigpipe, faults, writeFailed, sent, lost, run,
                  destBefore >>

\* LoopGoesOn with for(i = 0; i < 1; i++)
LoopGoesOnOnce(n) == n < 1

\* line 50, the loop condition of for(i = 0; i < 2; i++)
LoopGoesOn(n) == n < 2

\* ChildNumber with the two ordinals exchanged
ChildNumberSwapped(c1, done) == IF c1 = done THEN 2 ELSE 1

\* lines 59-64: the ordinal of the child whose pid wait() returned
ChildNumber(c1, done) == IF c1 = done THEN 1 ELSE 2

\* lines 50-79: one iteration of the wait loop
Wait(p) ==
  /\ pc[p] = "wait"
  /\ LoopGoesOn(i)
  /\ \E q \in Children \ reaped :
       /\ pc[q] = "done"
       /\ LET done == Pid(q)
              st == WEXITSTATUS(status[q])
              child_number == ChildNumber(child_1[p], done)
          IN /\ IF st = 0
                  THEN Say(p, Line("child_ok", child_number, 0))
                  ELSE Say(p, Line("child_failed", child_number, st))
             /\ error' = ErrorFlag(error, st)
       /\ reaped' = reaped \cup {q}
  /\ i' = i + 1
  /\ pc' = [pc EXCEPT ![p] = IF LoopGoesOn(i + 1) THEN "wait" ELSE "aggregate"]
  /\ UNCHANGED << child_1, child_2, fds, pipe, pipeCap, srcLen, destFile,
                  offset, pid, buffer, read_count, written, status,
                  openAtExit, sigpipe, faults, writeFailed, sent, lost, run,
                  destBefore >>

\* lines 82-88
Aggregate(p) ==
  /\ pc[p] = "aggregate"
  /\ IF ~error
       THEN Say(p, Line("all_ok", 0, 0)) /\ Return(p, 0, fds[p])
       ELSE Say(p, Line("all_failed", 0, 0)) /\ Return(p, 2, fds[p])
  /\ UNCHANGED << child_1, child_2, pipe, pipeCap, srcLen, destFile, offset,
                  pid, buffer, read_count, written, i, error, reaped, sigpipe,
                  faults, writeFailed, sent, lost, run, destBefore >>

\* lines 148-154
ForkError(p) ==
  /\ pc[p] = "fork_error"
  /\ Say(p, Line("fork_failed", 0, 0))
  /\ Return(p, 1, fds[p])
  /\ UNCHANGED << child_1, child_2, pipe, pipeCap, srcLen, destFile, offset,
                  pid, buffer, read_count, written, i, error, reaped, sigpipe,
                  faults, writeFailed, sent, lost, run, destBefore >>

(* ------------------- main(): child 1 (read file) ---------------------- *)

\* Child1Close0 without the close(fd[0])
Child1KeepsReadEnd(p) ==
  /\ pc[p] = "child1_close0"
  /\ pc' = [pc EXCEPT ![p] = "child1_open"]
  /\ UNCHANGED << child_1, child_2, fds, pipe, pipeCap, srcLen, destFile,
                  offset, pid, buffer, read_count, written, out, status,
                  openAtExit, i, error, reaped, sigpipe, faults, writeFailed,
                  sent, lost, run, destBefore >>

\* Child1Close0 closing fd[1] in place of fd[0]
Child1ClosesWriteEnd(p) ==
  /\ pc[p] = "child1_close0"
  /\ fds' = [fds EXCEPT ![p] = @ \ {"fd1"}]
  /\ pc' = [pc EXCEPT ![p] = "child1_open"]
  /\ UNCHANGED << child_1, child_2, pipe, pipeCap, srcLen, destFile, offset,
                  pid, buffer, read_count, written, out, status, openAtExit,
                  i, error, reaped, sigpipe, faults, writeFailed, sent, lost,
                  run, destBefore >>

\* line 94
Child1Close0(p) ==
  /\ pc[p] = "child1_close0"
  /\ fds' = [fds EXCEPT ![p] = @ \ {"fd0"}]
  /\ pc' = [pc EXCEPT ![p] = "child1_open"]
  /\ UNCHANGED << child_1, child_2, pipe, pipeCap, srcLen, destFile, offset,
                  pid, buffer, read_count, written, out, status, openAtExit,
                  i, error, reaped, sigpipe, faults, writeFailed, sent, lost,
                  run, destBefore >>

\* Child1OpenFailed returning 0
Child1OpenFailedReturns0(p) ==
  /\ Say(p, Line("open_failed", 1, 0))
  /\ Return(p, 0, fds[p] \ {"fd1"})

\* lines 98-102: the source could not be opened
Child1OpenFailed(p) ==
  /\ Say(p, Line("open_failed", 1, 0))
  /\ Return(p, 1, fds[p] \ {"fd1"})

\* lines 97-105: open the source; on success call copy(src, fd[1], 1)
Child1Open(p) ==
  /\ pc[p] = "child1_open"
  /\ \/ /\ fds' = [fds EXCEPT ![p] = @ \cup {"src"}]
        /\ offset' = [offset EXCEPT ![p] = 0]
        /\ pid' = [pid EXCEPT ![p] = 1]
        /\ pc' = [pc EXCEPT ![p] = "copy_read"]
        /\ UNCHANGED << out, status, openAtExit >>
     \/ /\ Child1OpenFailed(p)
        /\ UNCHANGED << offset, pid >>
  /\ UNCHANGED << child_1, child_2, pipe, pipeCap, srcLen, destFile, buffer,
                  read_count, written, i, error, reaped, sigpipe, faults,
                  writeFailed, sent, lost, run, destBefore >>

\* lines 105-110: copy() returned a negative value
Child1CopyFailed(p) ==
  /\ pc[p] = "child1_copied"
  /\ read_count[p] < 0
  /\ Say(p, Line("copy_failed", 1, 0))
  /\ Return(p, 2, (fds[p] \ {"src"}) \ {"fd1"})
  /\ UNCHANGED << child_1, child_2, pipe, pipeCap, srcLen, destFile, offset,
                  pid, buffer, read_count, written, i, error, reaped, sigpipe,
                  faults, writeFailed, sent, lost, run, destBefore >>

\* lines 105, 113-116: copy() returned 0
Child1Finish(p) ==
  /\ pc[p] = "child1_copied"
  /\ ~(read_count[p] < 0)
  /\ Return(p, 0, (fds[p] \ {"src"}) \ {"fd1"})
  /\ UNCHANGED << child_1, child_2, pipe, pipeCap, srcLen, destFile, offset,
                  pid, buffer, read_count, written, out, i, error, reaped,
                  sigpipe, faults, writeFailed, sent, lost, run, destBefore >>

(* ------------------- main(): child 2 (write file) --------------------- *)

\* Child2Close1 without the close(fd[1])
Child2KeepsWriteEnd(p) ==
  /\ pc[p] = "child2_close1"
  /\ pc' = [pc EXCEPT ![p] = "child2_open"]
  /\ UNCHANGED << child_1, child_2, fds, pipe, pipeCap, srcLen, destFile,
                  offset, pid, buffer, read_count, written, out, status,
                  openAtExit, i, error, reaped, sigpipe, faults, writeFailed,
                  sent, lost, run, destBefore >>

\* line 122
Child2Close1(p) ==
  /\ pc[p] = "child2_close1"
  /\ fds' = [fds EXCEPT ![p] = @ \ {"fd1"}]
  /\ pc' = [pc EXCEPT ![p] = "child2_open"]
  /\ UNCHANGED << child_1, child_2, pipe, pipeCap, srcLen, destFile, offset,
                  pid, buffer, read_count, written, out, status, openAtExit,
                  i, error, reaped, sigpipe, faults, writeFailed, sent, lost,
                  run, destBefore >>

\* lines 125-133: open the destination; on success call copy(fd[0], dest, 2)
Child2Open(p) ==
  /\ pc[p] = "child2_open"
  /\ \/ /\ fds' = [fds EXCEPT ![p] = @ \cup {"dest"}]
        /\ destFile' = OpenTrunc(destFile)
        /\ offset' = [offset EXCEPT ![p] = 0]
        /\ pid' = [pid EXCEPT ![p] = 2]
        /\ pc' = [pc EXCEPT ![p] = "copy_read"]
        /\ UNCHANGED << out, status, openAtExit >>
     \/ /\ Say(p, Line("open_failed", 2, 0))
        /\ Return(p, 1, fds[p] \ {"fd0"})
        /\ UNCHANGED << destFile, offset, pid >>
  /\ UNCHANGED << child_1, child_2, pipe, pipeCap, srcLen, buffer, read_count,
                  written, i, error, reaped, sigpipe, faults, writeFailed,
                  sent, lost, run, destBefore >>

\* Child2CopyFailed without the close(dest)
Child2CopyFailedLeaksDest(p) ==
  /\ pc[p] = "child2_copied"
  /\ read_count[p] < 0
  /\ Say(p, Line("copy_failed", 2, 0))
  /\ Return(p, 2, fds[p] \ {"fd0"})
  /\ UNCHANGED << child_1, child_2, pipe, pipeCap, srcLen, destFile, offset,
                  pid, buffer, read_count, written, i, error, reaped, sigpipe,
                  faults, writeFailed, sent, lost, run, destBefore >>

\* lines 133-138: copy() returned a negative value
Child2CopyFailed(p) ==
  /\ pc[p] = "child2_copied"
  /\ read_count[p] < 0
  /\ Say(p, Line("copy_failed", 2, 0))
  /\ Return(p, 2, (fds[p] \ {"dest"}) \ {"fd0"})
  /\ UNCHANGED << child_1, child_2, pipe, pipeCap, srcLen, destFile, offset,
                  pid, buffer, read_count, written, i, error, reaped, sigpipe,
                  faults, writeFailed, sent, lost, run, destBefore >>

\* lines 133, 141-144: copy() returned 0
Child2Finish(p) ==
  /\ pc[p] = "child2_copied"
  /\ ~(read_count[p] < 0)
  /\ Return(p, 0, (fds[p] \ {"dest"}) \ {"fd0"})
  /\ UNCHANGED << child_1, child_2, pipe, pipeCap, srcLen, destFile, offset,
                  pid, buffer, read_count, written, out, i, error, reaped,
                  sigpipe, faults, writeFailed, sent, lost, run, destBefore >>

(* ------------------------------ copy() -------------------------------- *)

\* the descriptors copy() was called with: child 1 passes (src, fd[1], 1),
\* child 2 passes (fd[0], dest, 2)
CopySrc(p) == IF pid[p] = 1 THEN "src" ELSE "fd0"
CopyDest(p) == IF pid[p] = 1 THEN "fd1" ELSE "dest"

\* line 166, the loop test on the value n that read() returned with data:
\* the body is entered (line 167 prints) or copy() returns n (line 171)
AfterRead(p, n, data) ==
  /\ read_count' = [read_count EXCEPT ![p] = n]
  /\ IF LoopTest(n)
       THEN /\ buffer' = [buffer EXCEPT ![p] = data]
            /\ written' = [written EXCEPT ![p] = 0]
            /\ Say(p, ProgressLine(pid[p], n))
            /\ pc' = [pc EXCEPT ![p] = "copy_write"]
       ELSE /\ pc' = [pc EXCEPT ![p] =
                        IF pid[p] = 1 THEN "child1_copied" ELSE "child2_copied"]
            /\ UNCHANGED << buffer, written, out >>

\* read() of a regular file: up to BLOCK_SIZE bytes from the file offset
ReadFile(p) ==
  LET n == Min(BLOCK_SIZE, srcLen - offset[p])
  IN /\ AfterRead(p, n, [k \in 1 .. n |-> Byte(offset[p] + k)])
     /\ offset' = [offset EXCEPT ![p] = @ + n]
     /\ UNCHANGED << pipe, faults >>

\* read() of the pipe: what is buffered, up to BLOCK_SIZE bytes; 0 once the
\* pipe is empty and no process holds the write end; blocks otherwise
ReadPipe(p) ==
  /\ \/ /\ Len(pipe) > 0
        /\ LET n == Min(BLOCK_SIZE, Len(pipe))
           IN /\ AfterRead(p, n, SubSeq(pipe, 1, n))
              /\ pipe' = SubSeq(pipe, n + 1, Len(pipe))
     \/ /\ Len(pipe) = 0
        /\ Holders("fd1") = {}
        /\ AfterRead(p, 0, << >>)
        /\ pipe' = pipe
  /\ UNCHANGED << offset, faults >>

\* read() reports an error
ReadFails(p) ==
  /\ faults < MaxFaults
  /\ faults' = faults + 1
  /\ AfterRead(p, -1, << >>)
  /\ UNCHANGED << offset, pipe >>

\* line 166
CopyRead(p) ==
  /\ pc[p] = "copy_read"
  /\ \/ CopySrc(p) = "src" /\ ReadFile(p)
     \/ CopySrc(p) = "fd0" /\ ReadPipe(p)
     \/ ReadFails(p)
  /\ UNCHANGED << child_1, child_2, fds, pipeCap, srcLen, destFile, pid,
                  status, openAtExit, i, error, reaped, sigpipe, writeFailed,
                  sent, lost, run, destBefore >>

\* Block with write(dest, buffer, read_count - 1)
BlockButLastByte(p) == SubSeq(buffer[p], 1, read_count[p] - 1)

\* line 168: the bytes handed to write(), the first read_count of buffer
Block(p) == SubSeq(buffer[p], 1, read_count[p])

\* the part of the block a write() has still to transfer
Pending(p) == SubSeq(Block(p), written[p] + 1, Len(Block(p)))

\* write() to the pipe while some process holds the read end: bytes go in
\* as room allows, and the call returns once the whole block is in
WritePipe(p) ==
  /\ Holders("fd0") # {}
  /\ Len(pipe) < pipeCap
  /\ LET k == Min(Len(Pending(p)), pipeCap - Len(pipe))
     IN /\ pipe' = pipe \o SubSeq(Pending(p), 1, k)
        /\ sent' = sent \o SubSeq(Pending(p), 1, k)
        /\ written' = [written EXCEPT ![p] = @ + k]
        /\ pc' = [pc EXCEPT ![p] =
                    IF written[p] + k = Len(Block(p))
                      THEN "copy_read" ELSE "copy_write"]
  /\ UNCHANGED << destFile, offset, status, fds, sigpipe, faults, writeFailed,
                  lost >>

\* write() to the pipe while no process holds the read end raises SIGPIPE:
\* by default the process is killed; with the signal ignored the call
\* fails, and line 168 does not look at its result
WriteBrokenPipe(p) ==
  /\ Holders("fd0") = {}
  /\ \E d \in (IF sigpipe = "unknown" THEN {"SIG_DFL", "SIG_IGN"}
               ELSE {sigpipe}) :
       /\ sigpipe' = d
       /\ IF d = "SIG_DFL"
            THEN /\ pc' = [pc EXCEPT ![p] = "done"]
                 /\ status' = [status EXCEPT ![p] = SignaledStatus(SIGPIPE)]
                 /\ fds' = [fds EXCEPT ![p] = {}]
                 /\ writeFailed' = writeFailed
            ELSE /\ pc' = [pc EXCEPT ![p] = "copy_read"]
                 /\ writeFailed' = writeFailed \cup {p}
                 /\ UNCHANGED << status, fds >>
  /\ lost' = lost + Len(Pending(p))
  /\ UNCHANGED << pipe, written, destFile, offset, faults, sent >>

\* write() to a regular file: the block goes in at the file offset
WriteFile(p) ==
  /\ destFile' = WriteAt(destFile, offset[p], Block(p))
  /\ offset' = [offset EXCEPT ![p] = @ + Len(Block(p))]
  /\ pc' = [pc EXCEPT ![p] = "copy_read"]
  /\ UNCHANGED << pipe, written, status, fds, sigpipe, faults, writeFailed,
                  sent, lost >>

\* write() to a regular file fails or transfers only k bytes of the block;
\* line 168 does not look at its result
WriteFileShort(p) ==
  /\ faults < MaxFaults
  /\ faults' = faults + 1
  /\ \E k \in {0, Len(Block(p)) - 1} :
       /\ destFile' = WriteAt(destFile, offset[p], SubSeq(Block(p), 1, k))
       /\ offset' = [offset EXCEPT ![p] = @ + k]
       /\ writeFailed' = IF k = 0 THEN writeFailed \cup {p} ELSE writeFailed
       /\ lost' = lost + (Len(Block(p)) - k)
  /\ pc' = [pc EXCEPT ![p] = "copy_read"]
  /\ UNCHANGED << pipe, written, status, fds, sigpipe, sent >>

\* line 168
CopyWrite(p) ==
  /\ pc[p] = "copy_write"
  /\ \/ CopyDest(p) = "fd1" /\ WritePipe(p)
     \/ CopyDest(p) = "fd1" /\ WriteBrokenPipe(p)
     \/ CopyDest(p) = "dest" /\ WriteFile(p)
     \/ CopyDest(p) = "dest" /\ WriteFileShort(p)
  /\ UNCHANGED << child_1, child_2, pipeCap, srcLen, pid, buffer, read_count,
                  out, openAtExit, i, error, reaped, run, destBefore >>

(* --------------------------- the next run ----------------------------- *)

Terminated == \A p \in Procs : pc[p] \in {"none", "done"}

\* both forks succeeded, both files opened, no read() or write() failed
CleanRun ==
  /\ child_2[0] > 0
  /\ faults = 0
  /\ \A p \in Procs : ~Printed(p, "open_failed")

\* after a run in which nothing failed, the program is started again on
\* the same paths
Rerun ==
  /\ run < MaxRuns
  /\ Terminated
  /\ pc[0] = "done"
  /\ CleanRun
  /\ run' = run + 1
  /\ destBefore' = destFile
  /\ pc' = [p \in Procs |-> IF p = 0 THEN "pipe" ELSE "none"]
  /\ child_1' = [p \in Procs |-> 0]
  /\ child_2' = [p \in Procs |-> 0]
  /\ fds' = [p \in Procs |-> {}]
  /\ pipe' = << >>
  /\ offset' = [p \in Procs |-> 0]
  /\ pid' = [p \in Procs |-> 0]
  /\ buffer' = [p \in Procs |-> << >>]
  /\ read_count' = [p \in Procs |-> 0]
  /\ written' = [p \in Procs |-> 0]
  /\ out' = [p \in Procs |-> << >>]
  /\ status' = [p \in Procs |-> -1]
  /\ openAtExit' = [p \in Procs |-> {}]
  /\ i' = 0
  /\ error' = FALSE
  /\ reaped' = {}
  /\ sigpipe' = "unknown"
  /\ faults' = 0
  /\ writeFailed' = {}
  /\ sent' = << >>
  /\ lost' = 0
  /\ UNCHANGED << pipeCap, srcLen, destFile >>

(* ------------------------------- Next --------------------------------- *)

\* the steps of one run of the program
Step ==
  \/ PipeCreate
  \/ Fork1
  \/ Fork1Fails
  \/ Fork2
  \/ Fork2Fails
  \/ \E p \in Procs :
       \/ ParentClose0(p)
       \/ ParentClose1(p)
       \/ Wait(p)
       \/ Aggregate(p)
       \/ ForkError(p)
       \/ Child1Close0(p)
       \/ Child1Open(p)
       \/ Child1CopyFailed(p)
       \/ Child1Finish(p)
       \/ Child2Close1(p)
       \/ Child2Open(p)
       \/ Child2CopyFailed(p)
       \/ Child2Finish(p)
       \/ CopyRead(p)
       \/ CopyWrite(p)

Next == Step \/ Rerun

Spec == Init /\ [][Next]_vars

\* one run of the program in which every process that can run is scheduled
\* again, and a system call that can return does return
FairSpec ==
  /\ Init
  /\ [][Step]_vars
  /\ WF_vars(PipeCreate \/ Fork1 \/ Fork1Fails \/ Fork2 \/ Fork2Fails)
  /\ \A p \in Procs :
       WF_vars(\/ ParentClose0(p) \/ ParentClose1(p) \/ Wait(p)
               \/ Aggregate(p) \/ ForkError(p)
               \/ Child1Close0(p) \/ Child1Open(p) \/ Child1CopyFailed(p)
               \/ Child1Finish(p) \/ Child2Close1(p) \/ Child2Open(p)
               \/ Child2CopyFailed(p) \/ Child2Finish(p)
               \/ CopyRead(p) \/ CopyWrite(p))

(* ----------------------------- properties ----------------------------- *)

\* the process exited by returning code from main()
Exited(p, code) == pc[p] = "done" /\ status[p] = ExitedStatus(code)

\* the process was killed by signal sig
Killed(p, sig) == pc[p] = "done" /\ status[p] = SignaledStatus(sig)

BothSpawned == child_1[0] > 0 /\ child_2[0] > 0

\* the progress notifications a process printed
Notes(p) == SelectSeq(out[p], LAMBDA l : l.t = "copied")

LastLine(p) == out[p][Len(out[p])]

\* C1: when both forks succeed, both files open and no read or write fails
\* or is short, the parent ends with exit code 0 and the destination holds
\* exactly the bytes of the source, for every size, capacity and schedule
CopyIsExact ==
  (pc[0] = "done" /\ CleanRun)
    => /\ Exited(0, 0)
       /\ destFile = Source(srcLen)

CopyIsExactWitness ==
  /\ pc[0] = "done"
  /\ CleanRun
  /\ srcLen = MaxBlocks * BLOCK_SIZE + 1
  /\ pipeCap = SmallPipe
  /\ Len(destBefore) > 0
  /\ destFile = Source(srcLen)

\* C2: if the first fork fails, the parent's exit code is 1
FirstForkFailureExits1 ==
  (child_1[0] < 0 /\ pc[0] = "done") => Exited(0, 1)

\* C3: if the first fork succeeds and the second fails, the parent prints
\* the fork failure and nothing else, exits with code 1, waits for no child
\* and runs no child's code
SecondForkFailureAborts ==
  (child_1[0] > 0 /\ child_2[0] < 0)
    => /\ pc[0] \in {"fork_error", "done"}
       /\ reaped = {}
       /\ i = 0
       /\ pid[0] = 0
       /\ fds[0] \subseteq {"fd0", "fd1"}
       /\ pc[0] = "done"
            => /\ Exited(0, 1)
               /\ out[0] = << Line("fork_failed", 0, 0) >>

\* the parent has exited after the second fork failed, child 1 still runs
SecondForkFailureWitness ==
  /\ child_1[0] > 0
  /\ child_2[0] < 0
  /\ pc[0] = "done"
  /\ pc[1] = "copy_write"

\* C4: once both children are reaped, the parent prints the success line and
\* exits with code 0 if both children exited with code 0, and prints the
\* failure line and exits with code 2 if one of them exited with another code
AggregateMatchesExitCodes ==
  (pc[0] = "done" /\ BothSpawned
    /\ \A q \in Children : \E c \in 0 .. 2 : Exited(q, c))
    => IF Exited(1, 0) /\ Exited(2, 0)
         THEN Exited(0, 0) /\ LastLine(0) = Line("all_ok", 0, 0)
         ELSE Exited(0, 2) /\ LastLine(0) = Line("all_failed", 0, 0)

\* child 2 fails first and is reaped first, child 1 exits with code 0 after
AggregateWitness ==
  /\ pc[0] = "done"
  /\ BothSpawned
  /\ Exited(1, 0)
  /\ Exited(2, 1)
  /\ out[0][1] = Line("child_failed", 2, 1)
  /\ out[0][2] = Line("child_ok", 1, 0)

DestOpenFailureReaderExits0 ==
  (BothSpawned /\ Printed(2, "open_failed"))
    => /\ Exited(2, 1)
       /\ (pc[1] = "done" /\ ~Printed(1, "open_failed") /\ faults = 0)
            => Exited(1, 0)

\* C7: a process one of whose write() calls in copy() failed exits with
\* code 2
WriteFailureExits2 ==
  \A p \in Procs : (p \in writeFailed /\ pc[p] = "done") => Exited(p, 2)

\* C8: once child 1 has read the source to its end, it has printed
\* ceil(srcLen / BLOCK_SIZE) notifications; each but the last carries
\* BLOCK_SIZE, the last carries what is left
ReaderNotifications ==
  (pid[1] = 1 /\ pc[1] \in {"child1_copied", "done"} /\ read_count[1] = 0)
    => LET n == Len(Notes(1))
           rest == srcLen % BLOCK_SIZE
       IN /\ n = (srcLen + BLOCK_SIZE - 1) \div BLOCK_SIZE
          /\ \A k \in 1 .. n : Notes(1)[k].a = 1
          /\ \A k \in 1 .. n - 1 : Notes(1)[k].b = BLOCK_SIZE
          /\ n > 0 => Notes(1)[n].b = IF rest = 0 THEN BLOCK_SIZE ELSE rest

ReaderNotificationsWitness ==
  /\ pid[1] = 1
  /\ pc[1] = "done"
  /\ read_count[1] = 0
  /\ srcLen = MaxBlocks * BLOCK_SIZE + 1
  /\ Len(Notes(1)) = MaxBlocks + 1
  /\ Notes(1)[MaxBlocks + 1].b = 1

\* C9: after a run in which nothing failed the destination holds the bytes
\* of the source whatever it held before, and a second such run leaves what
\* the first left
Idempotent ==
  (pc[0] = "done" /\ CleanRun)
    => /\ destFile = Source(srcLen)
       /\ run > 1 => destFile = destBefore

\* the second run has ended, on the destination the first run left
IdempotentWitness ==
  /\ run = 2
  /\ pc[0] = "done"
  /\ CleanRun
  /\ srcLen = 1
  /\ destBefore = Source(1)
  /\ destFile = destBefore

\* C10: once both forks have succeeded, the run ends under fair scheduling:
\* child 2 returns (having read end-of-stream or met an error), child 1
\* terminates and the parent returns
Terminates ==
  BothSpawned
    ~> /\ pc[0] = "done"
       /\ pc[1] = "done"
       /\ \E c \in 0 .. 2 : Exited(2, c)

\* child 2 could not open the destination, the source is larger than the
\* pipe, and the run has ended
TerminatesWitness ==
  /\ BothSpawned
  /\ Printed(2, "open_failed")
  /\ srcLen > pipeCap
  /\ pc[0] = "done"
  /\ pc[1] = "done"
  /\ pc[2] = "done"

(* C11: the second fork failed *)

\* the second fork failed after the first succeeded
SecondForkFailed == child_1[0] > 0 /\ child_2[0] < 0

\* C11: after the second fork failed, child 1, which the parent leaves
\* running, terminates whatever the size of the source, also when the source
\* is larger than the pipe: it does not stay blocked in write() on a pipe
\* that no process reads.
OrphanReaderTerminates == SecondForkFailed ~> pc[1] = "done"

\* the second fork failed, the source is larger than the pipe and child 1
\* has terminated after the parent did
OrphanReaderWitness ==
  /\ SecondForkFailed
  /\ srcLen > pipeCap
  /\ Exited(0, 1)
  /\ pid[1] = 1
  /\ Len(pipe) = pipeCap
  /\ pc[1] = "done"

(* C12: the parent does no copying *)

\* C12: the parent never does a child's work: it never calls copy(), so it
\* never reads or writes the pipe, it never opens, truncates or writes a
\* file, and when the first fork fails the destination keeps its content.
SupervisorDoesNoWork ==
  /\ pc[0] \notin {"child1_open", "child2_open", "copy_read", "copy_write",
                   "child1_copied", "child2_copied"}
  /\ pid[0] = 0
  /\ fds[0] \subseteq {"fd0", "fd1"}
  /\ child_1[0] < 0 => destFile = destBefore

(* C13: first in, first out *)

IsPrefix(s, t) == Len(s) <= Len(t) /\ s = SubSeq(t, 1, Len(s))

\* the processes that opened the destination and called copy(fd[0], dest, 2)
Writers == {p \in Procs : pid[p] = 2}

\* the block a writer has read from the pipe and not yet written
InFlight ==
  IF \E w \in Writers : pc[w] = "copy_write"
    THEN Block(CHOOSE w \in Writers : pc[w] = "copy_write")
    ELSE << >>

\* C13 as claimed, read from the moment child 2 has opened the destination
\* (before that an existing destination still holds its old content): in
\* every state of a run without write failures the destination followed by
\* the content of the pipe is what child 1 has written to the pipe so far,
\* and that is a prefix of the source.
FifoOrderAsClaimed ==
  (lost = 0 /\ Writers # {}) =>
    /\ destFile \o pipe = sent
    /\ IsPrefix(sent, Source(srcLen))
    /\ IsPrefix(destFile, Source(srcLen))

\* C13, amended: in every state of a run without write failures what child 1
\* has written to the pipe so far is a prefix of the source, and once child 2
\* has opened the destination it equals the destination, followed by the
\* block child 2 has read and not yet written, followed by the content of
\* the pipe; so from then on the destination is a prefix of the source.
FifoOrder ==
  lost = 0 => /\ IsPrefix(sent, Source(srcLen))
              /\ Writers # {} =>
                   /\ destFile \o InFlight \o pipe = sent
                   /\ IsPrefix(destFile, Source(srcLen))

\* child 2 holds a block it has read and not yet written, behind a block
\* already in the destination, while more bytes wait in the pipe
FifoOrderWitness ==
  /\ lost = 0
  /\ BothSpawned
  /\ InFlight # << >>
  /\ destFile # << >>
  /\ pipe # << >>
  /\ destFile \o pipe # sent

(* C14: end of stream *)

\* copy(fd[0], dest, 2) has returned in w because read() returned 0
SawEndOfStream(w) ==
  /\ pid[w] = 2
  /\ pc[w] \in {"child2_copied", "done"}
  /\ read_count[w] = 0

\* C14: child 2 reads end of stream only when no process holds the write
\* end and the pipe is empty; so, when the source was opened, child 2 does
\* not leave its copy loop before child 1 has written every block it read
\* and has released the write end by terminating.
EndOfStreamAfterRelease ==
  \A w \in Procs :
    SawEndOfStream(w) =>
      /\ Holders("fd1") = {}
      /\ pipe = << >>
      /\ pid[1] = 1 => /\ pc[1] = "done"
                       /\ read_count[1] <= 0
                       /\ Len(sent) = offset[1]

\* child 2 has read end of stream after child 1 sent a source larger than
\* the pipe
EndOfStreamWitness ==
  /\ SawEndOfStream(2)
  /\ pc[2] = "child2_copied"
  /\ Exited(1, 0)
  /\ srcLen > pipeCap
  /\ Len(sent) = srcLen

(* C15: who holds which descriptor *)

\* p is inside copy()
InCopy(p) == pc[p] \in {"copy_read", "copy_write"}

\* C15: a process inside copy() holds exactly one end of the pipe and one
\* file: child 1 the write end and the source, child 2 the read end and the
\* destination; the parent in its wait loop holds neither end of the pipe.
EndpointOwnership ==
  \A p \in Procs :
    /\ (InCopy(p) /\ pid[p] = 1) => fds[p] = {"fd1", "src"}
    /\ (InCopy(p) /\ pid[p] = 2) => fds[p] = {"fd0", "dest"}
    /\ InCopy(p) => pid[p] \in {1, 2}
    /\ pc[p] \in {"wait", "aggregate"} => fds[p] \cap {"fd0", "fd1"} = {}

\* both children are inside copy() while the parent waits
EndpointOwnershipWitness ==
  /\ pc[0] = "wait"
  /\ InCopy(1)
  /\ InCopy(2)
  /\ pipe # << >>

(* C16: descriptors closed before a child returns *)

\* child p returned from main() with an exit code
Returned(p) == \E code \in {0, 1, 2} : Exited(p, code)

\* C16: on each return of a child (1 after a failed open, 2 after a failed
\* copy, 0 after a copy) the child has closed its end of the pipe and, if
\* it opened one, its file: no descriptor is open when it returns.
HandlesReleasedAtExit ==
  \A p \in Children : Returned(p) => openAtExit[p] = {}

\* child 1 returned 0 after its copy and child 2 returned 2 after a failed
\* read, both with every descriptor closed
HandlesReleasedWitness ==
  /\ Exited(1, 0)
  /\ pid[1] = 1
  /\ Exited(2, 2)
  /\ Printed(2, "copy_failed")
  /\ openAtExit[1] = {}
  /\ openAtExit[2] = {}

(* C17: read() reports an error *)

\* copy() has returned in p
Copied(p) == pc[p] \in {"child1_copied", "child2_copied"}

\* C17: when read() in the copy loop reports an error, copy() returns the
\* negative value at once: nothing is printed for that block, nothing is
\* written to the pipe or to the destination; the child then returns 2,
\* and what was written before the error stays as it is.
ReadErrorStopsCopy ==
  [][\A p \in Procs :
       /\ (pc[p] = "copy_read" /\ pc'[p] # pc[p] /\ read_count'[p] < 0) =>
            /\ Copied(p)'
            /\ out'[p] = out[p]
            /\ pipe' = pipe
            /\ sent' = sent
            /\ destFile' = destFile
       /\ (Copied(p) /\ read_count[p] < 0 /\ pc'[p] # pc[p]) =>
            /\ Exited(p, 2)'
            /\ pipe' = pipe
            /\ sent' = sent
            /\ destFile' = destFile]_vars

\* child 2 returned 2 after a failed read, with the first block of the
\* source in the destination
ReadErrorWitness ==
  /\ Exited(2, 2)
  /\ read_count[2] < 0
  /\ Printed(2, "copy_failed")
  /\ destFile # << >>
  /\ IsPrefix(destFile, Source(srcLen))
  /\ Len(destFile) < srcLen

(* C18: the parent's line for each child *)

\* the lines the parent printed in its wait loop
ChildLines ==
  SelectSeq(out[0], LAMBDA l : l.t \in {"child_ok", "child_failed"})

\* the line of the wait loop for child number q that returned code
ReportOf(q, code) ==
  IF code = 0 THEN Line("child_ok", q, 0) ELSE Line("child_failed", q, code)

\* C18: in whichever order the children terminate, each line of the wait
\* loop names a child that has terminated and been waited for, 1 for the
\* child that reads the source and 2 for the child that writes the
\* destination, with the exit code that child returned; no child is named
\* twice, and when the parent is done each of the two is named once.
ReportsByIdentity ==
  LET ls == ChildLines
  IN /\ Len(ls) = Cardinality(reaped)
     /\ \A j, k \in 1 .. Len(ls) : j # k => ls[j].a # ls[k].a
     /\ \A k \in 1 .. Len(ls) :
          /\ ls[k].a \in reaped
          /\ pc[ls[k].a] = "done"
          /\ \A code \in {0, 1, 2} :
               Exited(ls[k].a, code) => ls[k] = ReportOf(ls[k].a, code)
     /\ (BothSpawned /\ pc[0] = "done") =>
          {ls[k].a : k \in 1 .. Len(ls)} = Children

\* child 2 terminated and was reported first, with its exit code 1, then
\* child 1 with its exit code 2
ReportsWitness ==
  /\ Exited(1, 2)
  /\ Exited(2, 1)
  /\ ChildLines = << Line("child_failed", 2, 1), Line("child_failed", 1, 2) >>

(* C19: the parent outlives both children *)

\* the parent has left its wait loop
PastWaitLoop ==
  \/ pc[0] \in {"aggregate", "done"}
  \/ Printed(0, "all_ok")
  \/ Printed(0, "all_failed")

\* C19: when both forks succeeded the parent has waited exactly twice, once
\* for each child, before it prints the last line and returns: the parent
\* is never done while a child still runs.
SupervisorWaitsForBoth ==
  (BothSpawned /\ PastWaitLoop) =>
    /\ i = 2
    /\ reaped = Children
    /\ pc[1] = "done"
    /\ pc[2] = "done"

\* the parent returned after both children, child 1 having been blocked on
\* a full pipe
SupervisorWaitsWitness ==
  /\ BothSpawned
  /\ pc[0] = "done"
  /\ i = 2
  /\ srcLen > pipeCap
  /\ Exited(1, 0)
  /\ Exited(2, 0)
  /\ Len(ChildLines) = 2

(* C20: what exit code 0 of the parent means *)

\* C20: whenever the parent, after both forks succeeded, returns 0, the
\* destination holds exactly the bytes of the source, also in runs where a
\* write() failed or transferred fewer bytes than asked or a child was
\* killed by a signal.
ExitZeroMeansCopied ==
  (BothSpawned /\ Exited(0, 0)) => destFile = Source(srcLen)

====
